---- MODULE Spec2Model ----
(***************************************************************************)
(* Model of the Battleship class of guru.py (Battleship-Guru) and of the   *)
(* turn loop of main(): predict -> update(hit|miss) -> optional sink.      *)
(* Spec plays the loop with arbitrary answers, SpecStandard starts the     *)
(* classic 10x10 game, SpecHonest plays against a placed fleet.            *)
(* Coordinates are Python list indexes: a negative index i in -n..-1       *)
(* addresses element i + n, any index outside -n..n-1 raises IndexError.   *)
(***************************************************************************)
EXTENDS Integers, Sequences, FiniteSets, TLC

\* ---------------------------------------------------------------- bounds
W == 2
H == 2
MaxTurns == 3
MaxShipLen == 2
\* the grid and the number of predictions of the games played against an
\* opponent who placed ships
HonestW == 3
HonestH == 3
HonestTurns == 4
HonestShipLen == 3

\* width and height are the fields set by __init__ (lines 51-52); fleet is
\* the opponent's ship placement, a set of ships, each the set of its tiles
\* (empty where no opponent is modelled); shots are the cells the opponent
\* has been asked about so far
VARIABLES board, hit_mem, ships, mode, width, height, prob_map, pred, pc,
          err, op, turn, fleet, shots

vars == <<board, hit_mem, ships, mode, width, height, prob_map, pred, pc,
          err, op, turn, fleet, shots>>

\* the number of predictions explored
TurnLimit == IF fleet = {} THEN MaxTurns ELSE HonestTurns

Xs == 0 .. (width - 1)
Ys == 0 .. (height - 1)
Tiles == Xs \X Ys

\* the ship lists a new game is started with (main, lines 438-450): games
\* of one or two ships
ShipLists == UNION {[1 .. n -> 1 .. MaxShipLen] : n \in {1, 2}}

\* ------------------------------------------------- Python list indexing
PyValid(i, n) == i >= 0 - n /\ i < n

PyIdx(i, n) == IF i < 0 THEN i + n ELSE i

\* self.board[x][y] read with Python index semantics (indexes valid)
Cell(b, x, y) == b[PyIdx(x, width)][PyIdx(y, height)]

\* self.board[x][y] = v with Python index semantics (indexes valid)
SetCell(b, x, y, v) == [b EXCEPT ![PyIdx(x, width)][PyIdx(y, height)] = v]

InGrid(x, y) == x \in Xs /\ y \in Ys

\* ------------------------------------------------------------ __init__
EmptyBoard == [x \in Xs |-> [y \in Ys |-> "."]]

\* the state after Battleship(ships, mode, width, height), lines 49-62
NewGame(sh, m, w, h) ==
    /\ width = w
    /\ height = h
    /\ board = EmptyBoard
    /\ hit_mem = <<>>
    /\ ships = sh
    /\ mode = m
    /\ prob_map = <<>>
    /\ pred = <<>>
    /\ pc = "predict"
    /\ err = "none"
    /\ op = [name |-> "init", args |-> <<>>]
    /\ turn = 0
    /\ shots = {}

Init ==
    /\ \E sh \in ShipLists, m \in {"n", "t"} : NewGame(sh, m, W, H)
    /\ fleet = {}

\* ------------------------------------------------------- _gen_prob_map
ZeroMap == [x \in Xs |-> [y \in Ys |-> 0]]

\* x_valid after the shift loop (lines 84-88)
XValid(b, x, y, ship) ==
    \A shift \in 0 .. (ship - 1) :
        ~(x + shift >= width \/ b[x + shift][y] # ".")

\* y_valid computed from the cells of the right-going run
YValidRun(b, x, y, ship) ==
    \A shift \in 0 .. (ship - 1) :
        ~(x + shift >= width \/ b[x + shift][y] # ".")

\* y_valid after the shift loop (lines 84, 90-93)
YValid(b, x, y, ship) ==
    \A shift \in 0 .. (ship - 1) :
        ~(y + shift >= height \/ b[x][y + shift] # ".")

\* the right-going increment starting one tile late
AddRightLate(pm, x, y, ship) ==
    [i \in Xs |-> [j \in Ys |->
        IF j = y /\ i > x /\ i < x + ship THEN pm[i][j] + 1 ELSE pm[i][j]]]

\* lines 95-97: prob_map[x + x_shift][y] += 1 for x_shift in range(ship)
AddRight(pm, x, y, ship) ==
    [i \in Xs |-> [j \in Ys |->
        IF j = y /\ i >= x /\ i < x + ship THEN pm[i][j] + 1 ELSE pm[i][j]]]

\* lines 101-103: prob_map[x][y + y_shift] += 1 for y_shift in range(ship)
AddDown(pm, x, y, ship) ==
    [i \in Xs |-> [j \in Ys |->
        IF i = x /\ j >= y /\ j < y + ship THEN pm[i][j] + 1 ELSE pm[i][j]]]

\* a loop body that counts the right-going placements only
ProbStepRightOnly(pm, b, x, y, ship) ==
    IF XValid(b, x, y, ship) THEN AddRight(pm, x, y, ship) ELSE pm

\* body of the innermost origin loop (lines 79-105)
ProbStep(pm, b, x, y, ship) ==
    LET pm1 == IF XValid(b, x, y, ship) THEN AddRight(pm, x, y, ship) ELSE pm
    IN  IF YValid(b, x, y, ship) THEN AddDown(pm1, x, y, ship) ELSE pm1

\* the three nested loops (lines 74-78): ship outermost, then y, then x.
\* Each loop compares the map an iteration returns with the one it was
\* given, so that the value is computed before the next iteration starts;
\* "nxt = pm" is the case of an iteration that added nothing.

\* for x in range(self.width), line 78
RECURSIVE XLoop(_, _, _, _, _)
XLoop(pm, b, ship, y, x) ==
    IF x >= width THEN pm
    ELSE LET nxt == ProbStep(pm, b, x, y, ship)
         IN  IF nxt = pm THEN XLoop(pm, b, ship, y, x + 1)
             ELSE XLoop(nxt, b, ship, y, x + 1)

\* for y in range(self.height), line 77
RECURSIVE YLoop(_, _, _, _)
YLoop(pm, b, ship, y) ==
    IF y >= height THEN pm
    ELSE LET nxt == XLoop(pm, b, ship, y, 0)
         IN  IF nxt = pm THEN YLoop(pm, b, ship, y + 1)
             ELSE YLoop(nxt, b, ship, y + 1)

\* for ship in self.ships, line 74: entry k of the list onwards
RECURSIVE ProbLoop(_, _, _, _)
ProbLoop(pm, b, sh, k) ==
    IF k > Len(sh) THEN pm
    ELSE LET nxt == YLoop(pm, b, sh[k], 0)
         IN  IF nxt = pm THEN ProbLoop(pm, b, sh, k + 1)
             ELSE ProbLoop(nxt, b, sh, k + 1)

GenProbMap(b, sh) == ProbLoop(ZeroMap, b, sh, 1)

\* predict, lines 167-171: no pending hit, build the probability map
GenProbMapCall ==
    /\ pc = "predict"
    /\ turn < TurnLimit
    /\ Len(hit_mem) = 0
    /\ prob_map' = GenProbMap(board, ships)
    /\ pc' = "choose"
    /\ op' = [name |-> "_gen_prob_map", args |-> <<>>]
    /\ UNCHANGED <<board, hit_mem, ships, mode, width, height, fleet, shots,
                   pred, err, turn>>

MaxOfMap(pm) == CHOOSE m \in {pm[x][y] : x \in Xs, y \in Ys} :
                    \A x \in Xs, y \in Ys : pm[x][y] <= m

\* np.argwhere(self.prob_map == np.max(self.prob_map))
ArgMax(pm) == {t \in Tiles : pm[t[1]][t[2]] = MaxOfMap(pm)}

\* lines 258-262: store the prediction, then write it to the board; the
\* write raises IndexError when the coordinate is no valid list index
MarkPred(p) ==
    /\ pred' = p
    /\ IF PyValid(p[1], width) /\ PyValid(p[2], height)
       THEN /\ board' = SetCell(board, p[1], p[2], "+")
            /\ pc' = "update"
            /\ err' = "none"
       ELSE /\ board' = board
            /\ pc' = "error"
            /\ err' = "IndexError"

\* predict, lines 179-182 and 258-262
PredictProb ==
    /\ pc = "choose"
    /\ \E p \in ArgMax(prob_map) : MarkPred(p)
    /\ turn' = turn + 1
    /\ op' = [name |-> "predict", args |-> <<"prob">>]
    /\ UNCHANGED <<hit_mem, ships, mode, width, height, fleet, shots, prob_map>>

\* ------------------------------------------------------- _gen_hit_map
\* each direction counts the "." cells met before the loop breaks: index k
\* of the range is counted when the first k cells visited are all "."

\* lines 123-127: for right_loc in range(tile_x + 1, self.width)
Right(b, tx, ty) ==
    Cardinality({k \in 1 .. (width - 1 - tx) :
                    \A j \in 1 .. k : Cell(b, tx + j, ty) = "."})

\* the left-going walk running one index past the left edge
LeftPastEdge(b, tx, ty) ==
    Cardinality({k \in 1 .. (tx + 1) :
                    \A j \in 1 .. k : Cell(b, tx - j, ty) = "."})

\* lines 130-134: for left_loc in reversed(range(0, tile_x))
Left(b, tx, ty) ==
    Cardinality({k \in 1 .. tx :
                    \A j \in 1 .. k : Cell(b, tx - j, ty) = "."})

\* lines 137-141: for down_loc in range(tile_y + 1, self.height)
Down(b, tx, ty) ==
    Cardinality({k \in 1 .. (height - 1 - ty) :
                    \A j \in 1 .. k : Cell(b, tx, ty + j) = "."})

\* lines 144-148: for up_loc in reversed(range(0, tile_y))
Up(b, tx, ty) ==
    Cardinality({k \in 1 .. ty :
                    \A j \in 1 .. k : Cell(b, tx, ty - j) = "."})

\* the returned dict (lines 151-158), as a set of <<key, value>> pairs
GenHitMap(b, tx, ty) ==
    { <<(<<tx + 1, ty>>), Right(b, tx, ty)>>,
      <<(<<tx - 1, ty>>), Left(b, tx, ty)>>,
      <<(<<tx, ty + 1>>), Down(b, tx, ty)>>,
      <<(<<tx, ty - 1>>), Up(b, tx, ty)>> }

\* hit_map[key]
Lookup(hm, key) == (CHOOSE e \in hm : e[1] = key)[2]

\* ------------------------------------------------- predict, hit branches
\* list.sort(key=...): stable, ascending; c is the tuple position (1 = x,
\* 2 = y) the key function reads
\* an insertion that loses an entry that belongs before the last one
InsertByLosing(s, e, c) ==
    IF s = <<>> THEN <<e>>
    ELSE IF s[Len(s)][c] <= e[c] THEN Append(s, e)
    ELSE s

RECURSIVE InsertBy(_, _, _)
InsertBy(s, e, c) ==
    IF s = <<>> THEN <<e>>
    ELSE IF s[Len(s)][c] <= e[c] THEN Append(s, e)
    ELSE Append(InsertBy(SubSeq(s, 1, Len(s) - 1), e, c), s[Len(s)])

RECURSIVE SortBy(_, _)
SortBy(s, c) ==
    IF s = <<>> THEN <<>>
    ELSE InsertBy(SortBy(SubSeq(s, 1, Len(s) - 1), c), s[Len(s)], c)

\* the orientation test reading the y coordinates
UpAndDownByRow(hm) == hm[1][2] = hm[Len(hm)][2]

\* line 195: self.hit_mem[0][0] == self.hit_mem[-1][0]
UpAndDown(hm) == hm[1][1] = hm[Len(hm)][1]

\* lines 198-215
VerticalHitMap(b, sorted) ==
    LET lower_hit == sorted[Len(sorted)]
        upper_hit == sorted[1]
        k1 == <<lower_hit[1], lower_hit[2] + 1>>
        k2 == <<upper_hit[1], upper_hit[2] - 1>>
    IN  { <<k1, Lookup(GenHitMap(b, lower_hit[1], lower_hit[2]), k1)>>,
          <<k2, Lookup(GenHitMap(b, upper_hit[1], upper_hit[2]), k2)>> }

\* a horizontal candidate mapping scored around one end of the run only
HorizontalHitMapOneEnd(b, sorted) ==
    LET right_hit == sorted[1]
        k1 == <<right_hit[1] + 1, right_hit[2]>>
        k2 == <<right_hit[1] - 1, right_hit[2]>>
    IN  { <<k1, Lookup(GenHitMap(b, right_hit[1], right_hit[2]), k1)>>,
          <<k2, Lookup(GenHitMap(b, right_hit[1], right_hit[2]), k2)>> }

\* lines 221-238
HorizontalHitMap(b, sorted) ==
    LET left_hit == sorted[Len(sorted)]
        right_hit == sorted[1]
        k1 == <<left_hit[1] + 1, left_hit[2]>>
        k2 == <<right_hit[1] - 1, right_hit[2]>>
    IN  { <<k1, Lookup(GenHitMap(b, left_hit[1], left_hit[2]), k1)>>,
          <<k2, Lookup(GenHitMap(b, right_hit[1], right_hit[2]), k2)>> }

\* lines 247-253: the keys whose value is max(hit_map.values())
PredChoices(hm) ==
    {e[1] : e \in {f \in hm : \A g \in hm : g[2] <= f[2]}}

\* lines 187-253: the coordinates random.choice draws from when hit memory
\* hm is not empty
HitChoices(b, hm) ==
    IF Len(hm) = 1 THEN PredChoices(GenHitMap(b, hm[1][1], hm[1][2]))
    ELSE IF UpAndDown(hm) THEN PredChoices(VerticalHitMap(b, SortBy(hm, 2)))
    ELSE PredChoices(HorizontalHitMap(b, SortBy(hm, 1)))

\* predict, lines 187-192 and 247-262: exactly one pending hit
PredictSingle ==
    /\ pc = "predict"
    /\ turn < TurnLimit
    /\ Len(hit_mem) = 1
    /\ \E p \in PredChoices(GenHitMap(board, hit_mem[1][1], hit_mem[1][2])) :
          MarkPred(p)
    /\ turn' = turn + 1
    /\ op' = [name |-> "predict", args |-> <<"single">>]
    /\ UNCHANGED <<hit_mem, ships, mode, width, height, fleet, shots, prob_map>>

\* predict, lines 195-215 and 247-262: "up-and-down" branch
PredictVertical ==
    /\ pc = "predict"
    /\ turn < TurnLimit
    /\ Len(hit_mem) >= 2
    /\ UpAndDown(hit_mem)
    /\ hit_mem' = SortBy(hit_mem, 2)
    /\ \E p \in PredChoices(VerticalHitMap(board, SortBy(hit_mem, 2))) :
          MarkPred(p)
    /\ turn' = turn + 1
    /\ op' = [name |-> "predict", args |-> <<"vertical">>]
    /\ UNCHANGED <<ships, mode, width, height, fleet, shots, prob_map>>

\* predict, lines 218-238 and 247-262: "left-to-right" branch
PredictHorizontal ==
    /\ pc = "predict"
    /\ turn < TurnLimit
    /\ Len(hit_mem) >= 2
    /\ ~UpAndDown(hit_mem)
    /\ hit_mem' = SortBy(hit_mem, 1)
    /\ \E p \in PredChoices(HorizontalHitMap(board, SortBy(hit_mem, 1))) :
          MarkPred(p)
    /\ turn' = turn + 1
    /\ op' = [name |-> "predict", args |-> <<"horizontal">>]
    /\ UNCHANGED <<ships, mode, width, height, fleet, shots, prob_map>>

\* ---------------------------------------------------------------- update
\* an update that records a hit but leaves the predicted mark on a miss
UpdateHitOnly(res) ==
    /\ pc = "update"
    /\ board' = IF res = "x" THEN SetCell(board, pred[1], pred[2], res)
                ELSE board
    /\ hit_mem' = IF res = "x" THEN Append(hit_mem, pred) ELSE hit_mem
    /\ pc' = IF res = "x" THEN "sink" ELSE "predict"
    /\ op' = [name |-> "update", args |-> <<res>>]
    /\ UNCHANGED <<ships, mode, width, height, fleet, prob_map, pred, err,
                   turn>>

\* lines 377-381, called from main (lines 476-480) with res in {"x", "o"};
\* after a hit main asks whether a ship was sunk (lines 483-488); the
\* opponent's record of shots is left to the caller of this action
Update(res) ==
    /\ pc = "update"
    /\ board' = SetCell(board, pred[1], pred[2], res)
    /\ hit_mem' = IF res = "x" THEN Append(hit_mem, pred) ELSE hit_mem
    /\ pc' = IF res = "x" THEN "sink" ELSE "predict"
    /\ op' = [name |-> "update", args |-> <<res>>]
    /\ UNCHANGED <<ships, mode, width, height, fleet, prob_map, pred, err,
                   turn>>

\* ----------------------------------------------------------- _clear_tile
\* lines 274-275; the result is the board and the exception raised, if any
ClearTile(b, tile_x, tile_y) ==
    IF ~PyValid(tile_x, width) \/ ~PyValid(tile_y, height)
    THEN [board |-> b, err |-> "IndexError"]
    ELSE IF Cell(b, tile_x, tile_y) # "#"
         THEN [board |-> SetCell(b, tile_x, tile_y, "o"), err |-> "none"]
         ELSE [board |-> b, err |-> "none"]

\* ---------------------------------------------------------- _clear_edges
\* the eight calls in source order (lines 286-295)
EdgeOffsets == << <<1, 0>>, <<-1, 0>>, <<0, 1>>, <<0, -1>>,
                  <<1, 1>>, <<-1, -1>>, <<1, -1>>, <<-1, 1>> >>

RECURSIVE ClearFrom(_, _, _, _)
ClearFrom(b, tile_x, tile_y, k) ==
    IF k > Len(EdgeOffsets) THEN [board |-> b, err |-> "none"]
    ELSE LET r == ClearTile(b, tile_x + EdgeOffsets[k][1],
                               tile_y + EdgeOffsets[k][2])
         IN  IF r.err # "none" THEN r
             ELSE ClearFrom(r.board, tile_x, tile_y, k + 1)

ClearEdges(b, tile_x, tile_y) == ClearFrom(b, tile_x, tile_y, 1)

\* ------------------------------------------------------------------ sink
\* list.remove(e): drops the first element equal to e
RECURSIVE RemoveFirst(_, _)
RemoveFirst(s, e) ==
    IF s = <<>> THEN <<>>
    ELSE IF Head(s) = e THEN Tail(s)
    ELSE <<Head(s)>> \o RemoveFirst(Tail(s), e)

InSeq(s, e) == \E i \in 1 .. Len(s) : s[i] = e

\* the tiles the while loop visits, in order (lines 311-323, 337-346);
\* endpoints differing in x take the "left-to-right" branch on row start_y
SpanTiles(sx, sy, ex, ey) ==
    IF sx = ex
    THEN LET lo == IF sy > ey THEN ey ELSE sy
             hi == IF sy > ey THEN sy ELSE ey
         IN  [k \in 1 .. (hi - lo + 1) |-> <<sx, lo + k - 1>>]
    ELSE LET lo == IF sx > ex THEN ex ELSE sx
             hi == IF sx > ex THEN sx ELSE ex
         IN  [k \in 1 .. (hi - lo + 1) |-> <<lo + k - 1, sy>>]

\* lines 320 and 343
SunkLen(sx, sy, ex, ey) == Len(SpanTiles(sx, sy, ex, ey))

\* one pass of the while body (lines 324-332 / 347-355) per tile, stopping
\* at the first exception with the changes made so far kept
RECURSIVE SinkLoop(_, _, _, _, _)
SinkLoop(b, hm, m, tiles, k) ==
    IF k > Len(tiles) THEN [board |-> b, hit_mem |-> hm, err |-> "none"]
    ELSE LET t == tiles[k] IN
         IF ~PyValid(t[1], width) \/ ~PyValid(t[2], height)
         THEN [board |-> b, hit_mem |-> hm, err |-> "IndexError"]
         ELSE LET b1 == SetCell(b, t[1], t[2], "#") IN
              IF ~InSeq(hm, t)
              THEN [board |-> b1, hit_mem |-> hm, err |-> "ValueError"]
              ELSE LET hm1 == RemoveFirst(hm, t)
                       r == IF m = "n" THEN ClearEdges(b1, t[1], t[2])
                            ELSE [board |-> b1, err |-> "none"]
                   IN  IF r.err # "none"
                       THEN [board |-> r.board, hit_mem |-> hm1,
                             err |-> r.err]
                       ELSE SinkLoop(r.board, hm1, m, tiles, k + 1)

\* lines 357-360: delete the first entry equal to sunk, if there is one
RECURSIVE RemoveShip(_, _)
RemoveShip(sh, sunk) ==
    IF sh = <<>> THEN <<>>
    ELSE IF Head(sh) = sunk THEN Tail(sh)
    ELSE <<Head(sh)>> \o RemoveShip(Tail(sh), sunk)

\* sink (lines 299-367) called from main (lines 488-513) after a hit
Sink(sx, sy, ex, ey) ==
    /\ pc = "sink"
    /\ \E r \in {SinkLoop(board, hit_mem, mode, SpanTiles(sx, sy, ex, ey), 1)} :
       \E left \in {RemoveShip(ships, SunkLen(sx, sy, ex, ey))} :
        /\ board' = r.board
        /\ hit_mem' = r.hit_mem
        /\ err' = r.err
        /\ ships' = IF r.err = "none" THEN left ELSE ships
        /\ pc' = IF r.err # "none" THEN "error"
                 ELSE IF Len(left) = 0 THEN "over" ELSE "predict"
    /\ op' = [name |-> "sink", args |-> <<sx, sy, ex, ey>>]
    /\ UNCHANGED <<mode, width, height, fleet, shots, prob_map, pred, turn>>

\* main, line 488: the hit did not sink a ship
NoSink ==
    /\ pc = "sink"
    /\ pc' = "predict"
    /\ op' = [name |-> "nosink", args |-> <<>>]
    /\ UNCHANGED <<board, hit_mem, ships, mode, width, height, fleet, shots,
                   prob_map, pred, err, turn>>

\* main, lines 476-480: the user answers hit or miss, no opponent modelled
UpdateAny ==
    /\ \E res \in {"x", "o"} : Update(res)
    /\ UNCHANGED shots

\* main, lines 488-513: the user reports a ship sunk and types its two
\* endpoints, any two tiles of the grid
SinkAny ==
    /\ pc = "sink"
    /\ \E sx \in Xs, sy \in Ys, ex \in Xs, ey \in Ys : Sink(sx, sy, ex, ey)

Next ==
    \/ GenProbMapCall
    \/ PredictProb
    \/ PredictSingle
    \/ PredictVertical
    \/ PredictHorizontal
    \/ UpdateAny
    \/ SinkAny
    \/ NoSink

Spec == Init /\ [][Next]_vars

\* ------------------------------------------------- the standard game
\* GRID = (10, 10), line 18: the grid main passes to Battleship (line 450)
GridWidth == 10
GridHeight == 10

\* the classic fleet, entered into main's prompt (lines 438-448)
StandardFleet == <<5, 4, 3, 3, 2>>

\* the lists main can build from the classic fleet: its five lengths
\* entered in any order
StandardShipLists ==
    {sh \in [1 .. Len(StandardFleet) -> {2, 3, 4, 5}] :
        \A v \in {2, 3, 4, 5} :
            Cardinality({i \in 1 .. Len(sh) : sh[i] = v})
                = Cardinality({i \in 1 .. Len(sh) : StandardFleet[i] = v})}

StandardInit ==
    /\ \E sh \in StandardShipLists, m \in {"n", "t"} :
          NewGame(sh, m, GridWidth, GridHeight)
    /\ fleet = {}

\* the first call of predict of a standard game
StandardNext ==
    \/ GenProbMapCall
    \/ PredictProb

SpecStandard == StandardInit /\ [][StandardNext]_vars

\* ======================================================================
\* Properties
\* ======================================================================
RECURSIVE SumSeq(_)
SumSeq(s) == IF s = <<>> THEN 0 ELSE Head(s) + SumSeq(Tail(s))

\* a step of predict that chose a coordinate (any of the three modes)
PredictStep == op'.name = "predict" /\ turn' # turn

\* a step of sink, with the endpoints it was called with
SinkStep == pc = "sink" /\ op'.name = "sink"

Completed == err' = "none"

Neighbours(t) == {<<t[1] + EdgeOffsets[k][1], t[2] + EdgeOffsets[k][2]>> :
                     k \in 1 .. Len(EdgeOffsets)}

SpanSet(a) == {SpanTiles(a[1], a[2], a[3], a[4])[k] :
                  k \in 1 .. SunkLen(a[1], a[2], a[3], a[4])}

\* C1: the coordinate predict chooses is inside the grid and its mark is
\* unknown (".") at the moment predict is called.
C1_PredictChoosesUnknown ==
    [][PredictStep =>
          /\ InGrid(pred'[1], pred'[2])
          /\ board[pred'[1]][pred'[2]] = "."]_vars

\* the changes of a mark the claimed order allows; edge-clearing by a sink
\* in mode "n" may in addition turn an unknown cell into a miss
AllowedChange(old, new, clearing) ==
    \/ new = old
    \/ old = "." /\ new = "+"
    \/ old = "+" /\ new \in {"o", "x"}
    \/ old = "x" /\ new = "#"
    \/ clearing /\ old = "." /\ new = "o"

\* C2: every change of a cell's mark made by an operation that completes
\* follows unknown -> predicted -> (miss | hit), hit -> sunk; sunk is
\* never changed again and no cell is reset to unknown.
C2_MonotoneMarks ==
    [][Completed =>
          \A t \in Tiles :
              AllowedChange(board[t[1]][t[2]], board'[t[1]][t[2]],
                            SinkStep /\ mode = "n")]_vars

\* C3: after every completed operation each coordinate in hit memory is
\* inside the grid and has mark hit ("x").
C3_HitMemMarkedHit ==
    err = "none" =>
        \A i \in 1 .. Len(hit_mem) :
            /\ InGrid(hit_mem[i][1], hit_mem[i][2])
            /\ board[hit_mem[i][1]][hit_mem[i][2]] = "x"

\* C4: a sink of an axis-aligned in-grid span whose tiles are all in hit
\* memory completes, leaves every span tile sunk and, in mode "n", leaves
\* no in-grid neighbour of a span tile unknown.
C4_SinkMarksSpan ==
    [][(/\ SinkStep
        /\ (op'.args[1] = op'.args[3] \/ op'.args[2] = op'.args[4])
        /\ \A t \in SpanSet(op'.args) : InSeq(hit_mem, t))
       =>
       (/\ err' = "none"
        /\ \A t \in SpanSet(op'.args) : board'[t[1]][t[2]] = "#"
        /\ mode = "n" =>
              \A t \in SpanSet(op'.args) :
                  \A n \in Neighbours(t) \cap Tiles :
                      board'[n[1]][n[2]] # ".")]_vars

\* the neighbour coordinates _clear_edges passes to _clear_tile
NeighbourCoords == UNION {Neighbours(t) : t \in Tiles}

\* C5: edge-clearing of a neighbour coordinate outside the grid raises no
\* error and changes no cell; of an in-grid coordinate it sets the cell to
\* miss unless the cell is sunk.
C5_ClearTileGuarded ==
    \A n \in NeighbourCoords :
        LET r == ClearTile(board, n[1], n[2]) IN
        /\ r.err = "none"
        /\ IF InGrid(n[1], n[2])
           THEN r.board = [board EXCEPT ![n[1]][n[2]] =
                               IF @ = "#" THEN "#" ELSE "o"]
           ELSE r.board = board

\* s with its i-th element left out
DropAt(s, i) == SubSeq(s, 1, i - 1) \o SubSeq(s, i + 1, Len(s))

\* C6: a sink whose length matches a remaining entry removes exactly one
\* such entry; a sink whose length matches no entry fails; the sum of the
\* remaining lengths decreases on every sink that completes and never
\* increases.
C6_SinkRemovesOneShip ==
    [][/\ SumSeq(ships') <= SumSeq(ships)
       /\ SinkStep =>
            LET sunk == SunkLen(op'.args[1], op'.args[2],
                                op'.args[3], op'.args[4])
            IN  /\ ~InSeq(ships, sunk) => err' # "none"
                /\ err' = "none" =>
                      /\ \E i \in 1 .. Len(ships) :
                            ships[i] = sunk /\ ships' = DropAt(ships, i)
                      /\ SumSeq(ships') < SumSeq(ships)]_vars

\* C7: a sink whose endpoints share neither x nor y fails, marks no tile as
\* sunk, removes nothing from hit memory and removes no ship length.
C7_DiagonalSinkRejected ==
    [][(SinkStep /\ op'.args[1] # op'.args[3] /\ op'.args[2] # op'.args[4])
       =>
       (/\ err' # "none"
        /\ \A t \in Tiles :
              board'[t[1]][t[2]] = "#" => board[t[1]][t[2]] = "#"
        /\ hit_mem' = hit_mem
        /\ ships' = ships)]_vars

\* C8: a sink of an axis-aligned span that contains a tile which is not in
\* hit memory fails with the lookup error of the hit-memory removal,
\* wherever that tile lies in the span.
C8_MissingTileLookupError ==
    [][(/\ SinkStep
        /\ (op'.args[1] = op'.args[3] \/ op'.args[2] = op'.args[4])
        /\ \E t \in SpanSet(op'.args) : ~InSeq(hit_mem, t))
       => err' = "ValueError"]_vars

\* ------------------------------------------------ placement recount
\* the tiles of the L-tile straight segment with origin (x0, y0)
Segment(o, x0, y0, L) ==
    IF o = "h" THEN {<<x0 + k, y0>> : k \in 0 .. (L - 1)}
    ELSE {<<x0, y0 + k>> : k \in 0 .. (L - 1)}

\* segments of length L that lie within the grid and cover unknown cells only
Placements(b, L) ==
    {p \in {"h", "v"} \X Xs \X Ys :
        /\ Segment(p[1], p[2], p[3], L) \subseteq Tiles
        /\ \A t \in Segment(p[1], p[2], p[3], L) : b[t[1]][t[2]] = "."}

RECURSIVE Coverage(_, _, _)
Coverage(b, sh, t) ==
    IF sh = <<>> THEN 0
    ELSE Cardinality({p \in Placements(b, Head(sh)) :
                         t \in Segment(p[1], p[2], p[3], Head(sh))})
         + Coverage(b, Tail(sh), t)

\* C9: P[x][y] is the number of (ship entry, orientation, origin) triples
\* whose segment lies within the grid, covers (x, y) and consists of unknown
\* cells only; building the map changes no cell, ship entry or hit-memory
\* entry.
C9_ProbMapCountsPlacements ==
    [][op'.name = "_gen_prob_map" =>
          /\ \A t \in Tiles : prob_map'[t[1]][t[2]] = Coverage(board, ships, t)
          /\ board' = board
          /\ ships' = ships
          /\ hit_mem' = hit_mem]_vars

\* a map was built for a board holding a sunk tile and a miss on which
\* some tile can still hold a remaining ship
C9_Witness ==
    /\ pc = "choose"
    /\ Len(ships) >= 1
    /\ \E t \in Tiles : board[t[1]][t[2]] = "#"
    /\ \E t \in Tiles : board[t[1]][t[2]] = "o"
    /\ \E t \in Tiles : prob_map[t[1]][t[2]] > 0

RECURSIVE SumTiles(_, _)
SumTiles(pm, ts) ==
    IF ts = {} THEN 0
    ELSE LET t == CHOOSE u \in ts : TRUE
         IN  pm[t[1]][t[2]] + SumTiles(pm, ts \ {t})

SumMap(pm) == SumTiles(pm, Tiles)

\* number of valid fitting placements, summed over the ship entries
RECURSIVE NumPlacements(_, _)
NumPlacements(b, sh) ==
    IF sh = <<>> THEN 0
    ELSE Cardinality(Placements(b, Head(sh))) + NumPlacements(b, Tail(sh))

\* every placement weighted by its length
RECURSIVE WeightedPlacements(_, _)
WeightedPlacements(b, sh) ==
    IF sh = <<>> THEN 0
    ELSE Head(sh) * Cardinality(Placements(b, Head(sh)))
         + WeightedPlacements(b, Tail(sh))

NoHits(b) == \A t \in Tiles : b[t[1]][t[2]] # "x"

\* C10 as stated: with zero hits and at least one ship every cell of the map
\* is >= 0 and the sum of the map is the count of valid fitting placements
\* taken once per orientation, or twice that count.
C10_SumIsPlacementCount ==
    (pc = "choose" /\ NoHits(board) /\ Len(ships) >= 1) =>
        /\ \A t \in Tiles : prob_map[t[1]][t[2]] >= 0
        /\ \/ SumMap(prob_map) = NumPlacements(board, ships)
           \/ SumMap(prob_map) = 2 * NumPlacements(board, ships)

\* C10 amended: with zero hits and at least one ship every cell of the map
\* is >= 0 and the sum of the map is, summed over the ship entries, the
\* entry's length times the number of valid fitting placements of that
\* length (both orientations counted).
C10_SumIsWeightedPlacementCount ==
    (pc = "choose" /\ NoHits(board) /\ Len(ships) >= 1) =>
        /\ \A t \in Tiles : prob_map[t[1]][t[2]] >= 0
        /\ SumMap(prob_map) = WeightedPlacements(board, ships)

\* a map with a positive sum was built for a board with a blocked tile and
\* ships of two different lengths
C10_Witness ==
    /\ pc = "choose"
    /\ NoHits(board)
    /\ Len(ships) = 2 /\ ships[1] # ships[2]
    /\ \E t \in Tiles : board[t[1]][t[2]] # "."
    /\ SumMap(prob_map) > 0

\* ------------------------------------------------------------------ C11
\* the unknown cells met walking from (x, y) in direction (dx, dy), one
\* cell at a time, until a cell that is not unknown or the grid boundary
RECURSIVE RunFrom(_, _, _, _, _)
RunFrom(b, x, y, dx, dy) ==
    IF ~InGrid(x + dx, y + dy) THEN 0
    ELSE IF b[x + dx][y + dy] # "." THEN 0
    ELSE 1 + RunFrom(b, x + dx, y + dy, dx, dy)

Directions == {<<1, 0>>, <<-1, 0>>, <<0, 1>>, <<0, -1>>}

Count(s, e) == Cardinality({i \in 1 .. Len(s) : s[i] = e})

\* the cell the list indexes board[x][y] address
Addressed(p) == <<PyIdx(p[1], width), PyIdx(p[2], height)>>

\* C12: the only change predict makes to the board is setting the cell at
\* the coordinate it returns to predicted; every other cell keeps its mark,
\* the remaining ships are unchanged and hit memory holds the same
\* coordinates as before (their order may change); a predict that raises
\* changes no cell
C12_PredictFrame ==
    [][PredictStep =>
        /\ ships' = ships
        /\ Len(hit_mem') = Len(hit_mem)
        /\ \A i \in 1 .. Len(hit_mem) :
              Count(hit_mem', hit_mem[i]) = Count(hit_mem, hit_mem[i])
        /\ IF Completed
           THEN /\ board'[Addressed(pred')[1]][Addressed(pred')[2]] = "+"
                /\ \A t \in Tiles : t # Addressed(pred') =>
                       board'[t[1]][t[2]] = board[t[1]][t[2]]
           ELSE board' = board]_vars

\* predict has returned with two pending hits in memory, both marked hit
\* on the board, and its coordinate marked predicted
C12_Witness ==
    /\ pc = "update"
    /\ op.name = "predict"
    /\ op.args \in {<<"vertical">>, <<"horizontal">>}
    /\ Len(hit_mem) >= 2
    /\ Cell(board, pred[1], pred[2]) = "+"
    /\ \E t \in Tiles : board[t[1]][t[2]] = "x"

\* ------------------------------------------------------------------ C13
Centre == {<<4, 4>>, <<4, 5>>, <<5, 4>>, <<5, 5>>}

\* C13: on the empty 10x10 board with the ships 5, 4, 3, 3, 2 and no
\* pending hit, the probability map has its greatest value at exactly the
\* four central tiles (4,4), (4,5), (5,4), (5,5), and predict returns one
\* of these four
C13_CentreIsHottest ==
    /\ pc = "choose" =>
          /\ board = EmptyBoard /\ hit_mem = <<>>
          /\ \A t \in Centre, u \in Tiles :
                IF u \in Centre
                THEN prob_map[u[1]][u[2]] = prob_map[t[1]][t[2]]
                ELSE prob_map[u[1]][u[2]] < prob_map[t[1]][t[2]]
    /\ pc \in {"update", "error"} => pred \in Centre /\ err = "none"

\* predict has returned (5,4) on the 10x10 grid with the fleet as listed
C13_Witness ==
    /\ width = 10 /\ height = 10
    /\ ships = <<5, 4, 3, 3, 2>>
    /\ op = [name |-> "predict", args |-> <<"prob">>]
    /\ pred = <<5, 4>>
    /\ Cell(board, 5, 4) = "+"

\* ------------------------------------------------------------------ C14
SameColumn(hm) == \A i, j \in 1 .. Len(hm) : hm[i][1] = hm[j][1]

SameRow(hm) == \A i, j \in 1 .. Len(hm) : hm[i][2] = hm[j][2]

AllInGrid(hm) == \A i \in 1 .. Len(hm) : InGrid(hm[i][1], hm[i][2])

\* the least and the greatest value of coordinate c among the entries
Lowest(hm, c) ==
    CHOOSE v \in {hm[i][c] : i \in 1 .. Len(hm)} :
        \A i \in 1 .. Len(hm) : v <= hm[i][c]

Highest(hm, c) ==
    CHOOSE v \in {hm[i][c] : i \in 1 .. Len(hm)} :
        \A i \in 1 .. Len(hm) : v >= hm[i][c]

\* the two candidates the claim names, each with the outward run length:
\* one past the lowest and one past the highest pending hit of the axis
EndCandidates(b, hm) ==
    IF SameRow(hm)
    THEN LET y == hm[1][2]
             lo == Lowest(hm, 1)
             hi == Highest(hm, 1)
         IN  { <<(<<lo - 1, y>>), RunFrom(b, lo, y, -1, 0)>>,
               <<(<<hi + 1, y>>), RunFrom(b, hi, y, 1, 0)>> }
    ELSE LET x == hm[1][1]
             lo == Lowest(hm, 2)
             hi == Highest(hm, 2)
         IN  { <<(<<x, lo - 1>>), RunFrom(b, x, lo, 0, -1)>>,
               <<(<<x, hi + 1>>), RunFrom(b, x, hi, 0, 1)>> }

\* the candidates with the greatest value
BestOf(cands) == {e[1] : e \in {f \in cands : \A g \in cands : g[2] <= f[2]}}

OnOneLine(hm) == Len(hm) >= 2 /\ AllInGrid(hm) /\ (SameRow(hm) \/ SameColumn(hm))

C16_SinkRemovesOnlySpan ==
    [][/\ (SinkStep /\ Completed =>
            \A i \in 1 .. Len(hit_mem) :
                IF hit_mem[i] \in SpanSet(op'.args)
                THEN ~InSeq(hit_mem', hit_mem[i])
                ELSE /\ InSeq(hit_mem', hit_mem[i])
                     /\ (/\ InGrid(hit_mem[i][1], hit_mem[i][2])
                         /\ board[hit_mem[i][1]][hit_mem[i][2]] = "x"
                         => board'[hit_mem[i][1]][hit_mem[i][2]] = "x"))
       /\ (~SinkStep =>
            \A i \in 1 .. Len(hit_mem) : InSeq(hit_mem', hit_mem[i]))]_vars

\* ------------------------------------------------------------------ C17
PredictedCells == {t \in Tiles : board[t[1]][t[2]] = "+"}

\* C17: in every reachable state at most one cell has the mark predicted:
\* exactly one, at the coordinate predict returned, between predict and the
\* update that follows it, and none once update has run (nor before the
\* first predict, nor after a predict that raised)
C17_OnePredictedCell ==
    IF pc = "update"
    THEN PredictedCells = {Addressed(pred)}
    ELSE PredictedCells = {}

\* predict has returned for the second time or later: a miss and the new
\* predicted mark are on the board
C17_Witness ==
    /\ pc = "update"
    /\ turn >= 2
    /\ Cell(board, pred[1], pred[2]) = "+"
    /\ \E t \in Tiles : board[t[1]][t[2]] = "o"

\* ------------------------------------------------------------------ C19
\* C19: a sink that fails (a span tile missing from hit memory, or an
\* edge-clearing access outside the grid) leaves the game state as it was
\* before the call: no cell has changed its mark, hit memory holds the
\* same coordinates and the remaining-ships list is unchanged
C19_FailedSinkChangesNothing ==
    [][SinkStep /\ ~Completed =>
        /\ board' = board
        /\ Len(hit_mem') = Len(hit_mem)
        /\ \A i \in 1 .. Len(hit_mem) :
              Count(hit_mem', hit_mem[i]) = Count(hit_mem, hit_mem[i])
        /\ ships' = ships]_vars

\* ======================================================================
\* Games against an opponent who placed the ships and answers honestly
\* ======================================================================
\* the in-grid straight segments of length L
Segments(L) ==
    {seg \in {Segment(p[1], p[2], p[3], L) : p \in {"h", "v"} \X Xs \X Ys} :
        seg \subseteq Tiles}

\* two ships touch when a tile of one is a tile or one of the eight
\* neighbours of a tile of the other
Touching(s1, s2) ==
    \E a \in s1, b \in s2 :
        /\ a[1] - b[1] \in {-1, 0, 1}
        /\ a[2] - b[2] \in {-1, 0, 1}

\* the legal placements of the first k ships of the list: straight, inside
\* the grid, disjoint, and in mode "n" not touching
RECURSIVE LegalFleets(_, _, _)
LegalFleets(sh, m, k) ==
    IF k = 0 THEN {{}}
    ELSE {f \cup {seg} : <<f, seg>> \in
            {fs \in LegalFleets(sh, m, k - 1) \X Segments(sh[k]) :
                \A other \in fs[1] :
                    /\ other \cap fs[2] = {}
                    /\ m = "n" => ~Touching(other, fs[2])}}

\* the ship lists of these games: one or two ships
HonestShipLists == UNION {[1 .. n -> 1 .. HonestShipLen] : n \in {1, 2}}

HonestInit ==
    /\ \E sh \in HonestShipLists, m \in {"n", "t"} :
          /\ NewGame(sh, m, HonestW, HonestH)
          /\ fleet \in LegalFleets(sh, m, Len(sh))

\* main, lines 476-480: the opponent looks at the cell shown as predicted,
\* one not shot at before, and answers hit exactly when a ship lies on it
HonestUpdate ==
    /\ pc = "update"
    /\ Addressed(pred) \notin shots
    /\ Update(IF Addressed(pred) \in UNION fleet THEN "x" ELSE "o")
    /\ shots' = shots \cup {Addressed(pred)}

\* the ship that was just hit
HitShip == CHOOSE ship \in fleet : Addressed(pred) \in ship

\* main, lines 488-513: the last tile of a ship was hit; the opponent
\* reports it sunk and its two end tiles are typed in, in either order
HonestSink ==
    /\ pc = "sink"
    /\ HitShip \subseteq shots
    /\ \E a \in HitShip, b \in HitShip :
          /\ SpanSet(<<a[1], a[2], b[1], b[2]>>) = HitShip
          /\ Sink(a[1], a[2], b[1], b[2])

\* main, line 488: the ship that was hit is not sunk yet
HonestNoSink ==
    /\ pc = "sink"
    /\ ~(HitShip \subseteq shots)
    /\ NoSink

HonestNext ==
    \/ GenProbMapCall
    \/ PredictProb
    \/ PredictSingle
    \/ PredictVertical
    \/ PredictHorizontal
    \/ HonestUpdate
    \/ HonestSink
    \/ HonestNoSink

SpecHonest == HonestInit /\ [][HonestNext]_vars

\* ------------------------------------------------------------------ C18
\* C18: against a legal placement of exactly the initial ship lengths,
\* with every hit, miss and sink reported honestly, the turn loop never
\* raises an error, every predict targets a tile not targeted before, and
\* the game is over after at most width x height predictions, in mode "n"
\* and in mode "t"
C18_HonestPlayRunsClean ==
    /\ err = "none"
    /\ pc = "update" =>
          /\ InGrid(pred[1], pred[2])
          /\ pred \notin shots
    /\ pc \notin {"over", "update", "sink"} => turn < width * height

\* ------------------------------------------------------------------ C20
\* the tiles form an unbroken run along one row or one column
StraightRun(ts) ==
    \/ ts = {}
    \/ \E a \in ts, b \in ts :
          /\ a[1] = b[1] \/ a[2] = b[2]
          /\ SpanSet(<<a[1], a[2], b[1], b[2]>>) = ts

\* C20: in mode "n", with a legal non-touching placement and honest
\* reports, in every reachable state the coordinates in hit memory all
\* belong to one single ship and form a contiguous straight run on one row
\* or one column, so that comparing the x of the first and the last entry
\* decides the orientation of that ship
C20_PendingHitsOneShip ==
    mode = "n" /\ Len(hit_mem) >= 1 =>
        LET pending == {hit_mem[i] : i \in 1 .. Len(hit_mem)} IN
        /\ \E ship \in fleet :
              /\ pending \subseteq ship
              /\ Len(hit_mem) >= 2 =>
                    (UpAndDown(hit_mem) <=> \A a, b \in ship : a[1] = b[1])
        /\ StraightRun(pending)
====
